---------------------------- MODULE Spec2Model ----------------------------
(***************************************************************************)
(* TrafficModel (services/TrafficPhysics): a fixed-timestep microscopic    *)
(* traffic simulation, IDM car following plus MOBIL lane changes, with a   *)
(* spawner, an incident (accident) timer and fundamental-diagram samples.  *)
(*                                                                         *)
(* The program computes with IEEE doubles; the model computes with         *)
(* integers in fixed point.  Units:                                        *)
(*   time          tick = 1/600 s  (dt = DT * timeScale, timeScale in      *)
(*                 tenths, so dt is timeScale ticks exactly)               *)
(*   x, length     millimetres                                             *)
(*   v             mm/s                                                    *)
(*   a             cm/s^2                                                  *)
(*   y             1/240 lane  (2.5 lane/s * dt is timeScale units)        *)
(*   wall clock    milliseconds                                            *)
(* Quotients truncate toward zero.  An acceleration below -ACC_RANGE is    *)
(* held at -ACC_RANGE (the model's integers are 32 bit): any such value    *)
(* stops the vehicle within one step, as the exact value does.             *)
(***************************************************************************)
EXTENDS Integers, Sequences, FiniteSets, TLC

VARIABLES
    vehicles,            \* this.vehicles: sequence of vehicle records
    roadLength,          \* this.roadLength (mm)
    nextId,              \* this.nextId
    timeSinceLastSpawn,  \* this.timeSinceLastSpawn (ticks)
    fdPoints,            \* this.fdPoints: sequence of [k, q]
    statsTimer,          \* this.statsTimer (ticks)
    blockedLane,         \* this.blockedLane: <<>> is null, <<l>> a lane
    blockedLocation,     \* this.blockedLocation: <<>> is null, <<x>> a position
    timers,              \* pending setTimeout callbacks, in scheduling order
    hostConfig,          \* the host's SimulationConfig (App state)
    epoch,               \* history: number of reset() calls so far
    spawnLog,            \* history: <<epoch, id>> of every vehicle spawned
    steps,               \* history: number of step() calls so far
    simTime,             \* history: simulated time elapsed (ticks)
    minTarget,           \* history: least targetSpeed of the initial vehicles
    lastFired,           \* history: the timer that fired last, and when
    snapshot,            \* the host's last getStats() result and the number
                         \* of edits the host made to its points: <<>>, <<s>>
    twin,                \* a second run of the same model: <<>> is none
    decided,             \* history: the list as phase 1 of the last step
                         \* left it, before the integration
    lastLaneChange       \* history: id -> simulated time of the vehicle's
                         \* last lane change, -1 if none is known

vars == <<vehicles, roadLength, nextId, timeSinceLastSpawn, fdPoints,
          statsTimer, blockedLane, blockedLocation, timers, hostConfig,
          epoch, spawnLog, steps, simTime, minTarget, lastFired, snapshot,
          twin, decided, lastLaneChange>>

(***************************************************************************)
(* Units and program constants                                             *)
(***************************************************************************)
DT_DEN == 60                 \* DT = 1 / 60 s
TPS == 10 * DT_DEN           \* ticks per second
MM == 1000                   \* millimetres per metre
LANES == 3                   \* this.lanes
IDM_DELTA == 4
JAM_DISTANCE == 2000         \* 2 m
COMFORT_DECEL == 200         \* 2.0 m/s^2
MOBIL_THRESHOLD == 10        \* 0.1 m/s^2
MOBIL_BIAS == 20             \* 0.2 m/s^2
SAFE_DECEL == 300            \* new follower may brake at most 3.0 m/s^2
MIN_GAP == 100               \* Math.max(0.1, gap)
COOLDOWN_SEC == 3            \* laneChangeTimer = 3.0
LATERAL_SPEED_X2 == 5        \* 2.5 lane units per second
YU == (2 * TPS) \div LATERAL_SPEED_X2    \* y units per lane: 240
SNAP_DEN == 20               \* |y - lane| > 0.05 = 1/20 lane
NOISE_MIN_V == 1000          \* noise only when v > 1 m/s
INCIDENT_LANE == 1
INCIDENT_X_MIN == 1000       \* x > 1000 m
INCIDENT_X_MAX == 4000       \* x < 4000 m
INCIDENT_MS == 8000          \* setTimeout(..., 8000)
SPAWN_CLEARANCE == 40        \* lastPos[bestLane] > 40 m
FD_MAX == 200                \* fdPoints keeps the last 200 points
STATS_PERIOD_SEC == 1        \* statsTimer > 1.0
FRAME_MS == 16
TWIN_FRAME_MS == 33
ACC_RANGE == 100000000       \* |a| is held within 10^6 m/s^2
Infinity == 2^30 + (2^30 - 1)
Null == <<>>

(***************************************************************************)
(* Arithmetic                                                              *)
(***************************************************************************)
Abs(n) == IF n < 0 THEN -n ELSE n
Min(a, b) == IF a < b THEN a ELSE b
Max(a, b) == IF a > b THEN a ELSE b
Sign(n) == IF n > 0 THEN 1 ELSE IF n < 0 THEN -1 ELSE 0

\* a / b truncated toward zero, b > 0
Quot(a, b) == IF a >= 0 THEN a \div b ELSE -((-a) \div b)

\* a * b / c truncated toward zero without forming a * b; b >= 0, c > 0
MulQuot(a, b, c) ==
    LET n == Abs(a)
        r == (n \div c) * b + ((n % c) * b) \div c
    IN  IF a >= 0 THEN r ELSE -r

\* floor of the square root of n >= 0, by bisection on [lo, hi)
RECURSIVE SqrtIn(_, _, _)
SqrtIn(n, lo, hi) ==
    IF hi - lo <= 1 THEN lo
    ELSE LET mid == (lo + hi) \div 2
         IN  IF mid * mid <= n THEN SqrtIn(n, mid, hi) ELSE SqrtIn(n, lo, mid)

ISqrt(n) == SqrtIn(n, 0, 46341)

\* (r / 1000)^n in thousandths
RECURSIVE PowMilli(_, _)
PowMilli(r, n) == IF n = 0 THEN 1000 ELSE Quot(r * PowMilli(r, n - 1), 1000)

(***************************************************************************)
(* Configuration (SimulationConfig), as integers:                          *)
(*   inflowRate veh/h, timeScale tenths, truckRatio hundredths,            *)
(*   politeness tenths, safeTimeGap tenths of a second, maxAccel cm/s^2,   *)
(*   accelerationNoise tenths of m/s^2.                                    *)
(***************************************************************************)
Cfg(inflow, ts, truck, pol, gapT, acc, noise) ==
    [inflowRate |-> inflow, timeScale |-> ts, truckRatio |-> truck,
     politeness |-> pol, safeTimeGap |-> gapT, maxAccel |-> acc,
     accelerationNoise |-> noise]

\* App's default configuration ("Research Baseline")
BaselineCfg == Cfg(2000, 10, 15, 2, 15, 150, 3)

(***************************************************************************)
(* getLeader / getFollower: a scan of this.vehicles in list order; the     *)
(* result is an index into vehs, 0 for null.  minDist is read only while   *)
(* best # 0 (it stands for Infinity before).                               *)
(***************************************************************************)
\* variant: a vehicle at the subject's own x taken for a leader
RECURSIVE ScanLeaderBeside(_, _, _, _, _, _)
ScanLeaderBeside(vehs, i, targetLane, j, minDist, best) ==
    IF j > Len(vehs) THEN best
    ELSE LET other == vehs[j]
             dist == other.x - vehs[i].x
         IN  IF other.id = vehs[i].id \/ other.lane # targetLane
             THEN ScanLeaderBeside(vehs, i, targetLane, j + 1, minDist, best)
             ELSE IF dist >= 0 /\ (best = 0 \/ dist < minDist)
                  THEN ScanLeaderBeside(vehs, i, targetLane, j + 1, dist, j)
                  ELSE ScanLeaderBeside(vehs, i, targetLane, j + 1, minDist,
                                        best)

RECURSIVE ScanLeader(_, _, _, _, _, _)
ScanLeader(vehs, i, targetLane, j, minDist, best) ==
    IF j > Len(vehs) THEN best
    ELSE LET other == vehs[j]
             dist == other.x - vehs[i].x
         IN  IF other.id = vehs[i].id \/ other.lane # targetLane
             THEN ScanLeader(vehs, i, targetLane, j + 1, minDist, best)
             ELSE IF dist > 0 /\ (best = 0 \/ dist < minDist)
                  THEN ScanLeader(vehs, i, targetLane, j + 1, dist, j)
                  ELSE ScanLeader(vehs, i, targetLane, j + 1, minDist, best)

getLeader(vehs, i, targetLane) == ScanLeader(vehs, i, targetLane, 1, 0, 0)

RECURSIVE ScanFollower(_, _, _, _, _, _)
ScanFollower(vehs, i, targetLane, j, minDist, best) ==
    IF j > Len(vehs) THEN best
    ELSE LET other == vehs[j]
             dist == vehs[i].x - other.x
         IN  IF other.id = vehs[i].id \/ other.lane # targetLane
             THEN ScanFollower(vehs, i, targetLane, j + 1, minDist, best)
             ELSE IF dist > 0 /\ (best = 0 \/ dist < minDist)
                  THEN ScanFollower(vehs, i, targetLane, j + 1, dist, j)
                  ELSE ScanFollower(vehs, i, targetLane, j + 1, minDist, best)

getFollower(vehs, i, targetLane) == ScanFollower(vehs, i, targetLane, 1, 0, 0)

(***************************************************************************)
(* Intelligent Driver Model.  vLeader and gap are <<>> (null) or <<n>>.    *)
(***************************************************************************)
\* variant: the free-road term without its constant 1
FreeTermBrake(v, desiredSpeed, config) ==
    Quot(config.maxAccel
           * (0 - PowMilli(Quot(v * 1000, desiredSpeed), IDM_DELTA)), 1000)

\* maxAccel * (1 - (v / desiredSpeed)^IDM_DELTA)
FreeTerm(v, desiredSpeed, config) ==
    Quot(config.maxAccel
           * (1000 - PowMilli(Quot(v * 1000, desiredSpeed), IDM_DELTA)), 1000)

\* JAM_DISTANCE + v * T + v * delta_v / (2 * sqrt(maxAccel * COMFORT_DECEL)), mm
SStar(v, vLeader, config) ==
    LET delta_v == v - vLeader
        sqrtAB == ISqrt((config.maxAccel * 10) * (COMFORT_DECEL * 10))  \* mm/s^2
    IN  JAM_DISTANCE + Quot(v * config.safeTimeGap, 10)
          + Quot(v * delta_v, 2 * sqrtAB)

\* -maxAccel * (s_star / max(0.1, gap))^2, held within ACC_RANGE
InteractionTerm(v, vLeader, gap, config) ==
    LET effectiveGap == Max(MIN_GAP, gap)
        \* s_star / effectiveGap in thousandths
        ratio == Min(1000 * ISqrt(ACC_RANGE),
                     Abs(Quot(SStar(v, vLeader, config) * 1000, effectiveGap)))
        once == MulQuot(ratio, config.maxAccel, 1000)
    IN  IF ratio > 0 /\ once \div 1000 >= ACC_RANGE \div ratio
        THEN -ACC_RANGE
        ELSE -Min(ACC_RANGE, MulQuot(once, ratio, 1000))

calculateAcceleration(v, vLeader, gap, desiredSpeed, config) ==
    LET a_free == FreeTerm(v, desiredSpeed, config)
    IN  IF gap = Null \/ vLeader = Null THEN a_free
        ELSE a_free + InteractionTerm(v, vLeader[1], gap[1], config)

\* leader ? leader.x - veh.x - leader.length : null
GapTo(vehs, i, l) == IF l = 0 THEN Null ELSE <<vehs[l].x - vehs[i].x - vehs[l].length>>

\* leader ? leader.v : null
SpeedOf(vehs, l) == IF l = 0 THEN Null ELSE <<vehs[l].v>>

(***************************************************************************)
(* checkLaneChange (MOBIL)                                                 *)
(***************************************************************************)
\* variant: lane + 1 tried before lane - 1
CandidatesRightFirst(lane) ==
    (IF lane < LANES - 1 THEN <<lane + 1>> ELSE <<>>)
      \o (IF lane > 0 THEN <<lane - 1>> ELSE <<>>)

\* variant: both neighbours taken without the range check
CandidatesUnchecked(lane) == <<lane - 1, lane + 1>>

Candidates(lane) ==
    (IF lane > 0 THEN <<lane - 1>> ELSE <<>>)
      \o (IF lane < LANES - 1 THEN <<lane + 1>> ELSE <<>>)

\* variant: no safety criterion
UnsafeNever(vehs, i, targetLane, config) == FALSE

\* 1. Safety criterion: the new follower would brake harder than 3.0 m/s^2
Unsafe(vehs, i, targetLane, config) ==
    LET veh == vehs[i]
        newFollower == getFollower(vehs, i, targetLane)
    IN  /\ newFollower # 0
        /\ calculateAcceleration(vehs[newFollower].v, <<veh.v>>,
               <<veh.x - vehs[newFollower].x - veh.length>>,
               vehs[newFollower].targetSpeed, config) < -SAFE_DECEL

\* Politeness: accOldFollowerNew - accOldFollowerCurr, 0 without old follower
PolitenessTerm(vehs, i, config) ==
    LET veh == vehs[i]
        oldFollower == getFollower(vehs, i, veh.lane)
    IN  IF oldFollower = 0 THEN 0
        ELSE LET o == vehs[oldFollower]
                 gapOld == veh.x - o.x - veh.length
                 accOldFollowerCurr ==
                     calculateAcceleration(o.v, <<veh.v>>, <<gapOld>>,
                                           o.targetSpeed, config)
                 myLeader == getLeader(vehs, i, veh.lane)
                 gapOldFuture ==
                     IF myLeader = 0 THEN Null
                     ELSE <<vehs[myLeader].x - o.x - vehs[myLeader].length>>
                 accOldFollowerNew ==
                     calculateAcceleration(o.v, SpeedOf(vehs, myLeader),
                                           gapOldFuture, o.targetSpeed, config)
             IN  accOldFollowerNew - accOldFollowerCurr

\* 2. Incentive criterion with the right lane bias
TotalIncentive(vehs, i, targetLane, accCurrent, config) ==
    LET veh == vehs[i]
        newLeader == getLeader(vehs, i, targetLane)
        accNew == calculateAcceleration(veh.v, SpeedOf(vehs, newLeader),
                      GapTo(vehs, i, newLeader), veh.targetSpeed, config)
        egoBenefit == accNew - accCurrent
    IN  egoBenefit
          + MulQuot(PolitenessTerm(vehs, i, config), config.politeness, 10)
          + (IF targetLane > veh.lane THEN MOBIL_BIAS ELSE 0)
          - (IF targetLane < veh.lane THEN MOBIL_BIAS ELSE 0)

\* the commit: lane, cooldown, turn signal
CommitLaneChange(vehs, i, targetLane) ==
    [vehs EXCEPT ![i].lane = targetLane,
                 ![i].laneChangeTimer = COOLDOWN_SEC * TPS,
                 ![i].laneChangeDirection =
                     IF YU * targetLane > vehs[i].y THEN 1 ELSE -1]

RECURSIVE TryCandidates(_, _, _, _, _, _)
TryCandidates(vehs, i, cands, k, accCurrent, config) ==
    IF k > Len(cands) THEN vehs
    ELSE IF Unsafe(vehs, i, cands[k], config)
         THEN TryCandidates(vehs, i, cands, k + 1, accCurrent, config)
         ELSE IF TotalIncentive(vehs, i, cands[k], accCurrent, config)
                   > MOBIL_THRESHOLD
              THEN CommitLaneChange(vehs, i, cands[k])
              ELSE TryCandidates(vehs, i, cands, k + 1, accCurrent, config)

checkLaneChange(vehs, i, accCurrent, config) ==
    TryCandidates(vehs, i, Candidates(vehs[i].lane), 1, accCurrent, config)

(***************************************************************************)
(* step, phase by phase                                                    *)
(***************************************************************************)
\* this.vehicles.sort((a, b) => b.x - a.x): stable, x descending
RECURSIVE InsertDesc(_, _)
InsertDesc(sorted, veh) ==
    IF sorted = <<>> THEN <<veh>>
    ELSE IF sorted[Len(sorted)].x >= veh.x THEN Append(sorted, veh)
         ELSE Append(InsertDesc(SubSeq(sorted, 1, Len(sorted) - 1), veh),
                     sorted[Len(sorted)])

RECURSIVE SortFrom(_, _, _)
SortFrom(vehs, k, acc) ==
    IF k > Len(vehs) THEN acc
    ELSE SortFrom(vehs, k + 1, InsertDesc(acc, vehs[k]))

SortDesc(vehs) == SortFrom(vehs, 1, <<>>)

\* (Math.random() - 0.5) * accelerationNoise, draw in hundredths
NoiseOf(draw, config) == Quot((draw - 50) * config.accelerationNoise, 10)

\* variant: MOBIL evaluated whatever the laneChangeTimer
DecideOneNoCooldown(vehs, i, draw, config, dt) ==
    LET veh == vehs[i]
    IN  IF veh.isCrashed
        THEN [vehs EXCEPT ![i].a = 0, ![i].v = 0]
        ELSE LET leader == getLeader(vehs, i, veh.lane)
                 idm == calculateAcceleration(veh.v, SpeedOf(vehs, leader),
                            GapTo(vehs, i, leader), veh.targetSpeed, config)
                 withA == [vehs EXCEPT ![i].a = idm]
             IN  checkLaneChange(withA, i, idm, config)

\* variant: a crashed vehicle treated like any other
DecideOneNoCrash(vehs, i, draw, config, dt) ==
    LET veh == vehs[i]
        leader == getLeader(vehs, i, veh.lane)
        idm == calculateAcceleration(veh.v, SpeedOf(vehs, leader),
                   GapTo(vehs, i, leader), veh.targetSpeed, config)
        withA == [vehs EXCEPT ![i].a = idm]
    IN  IF veh.laneChangeTimer <= 0
        THEN checkLaneChange(withA, i, idm, config)
        ELSE [withA EXCEPT ![i].laneChangeTimer = @ - dt]

\* 1. acceleration and lane change of vehicle i, on the list as it stands
DecideOne(vehs, i, draw, config, dt) ==
    LET veh == vehs[i]
    IN  IF veh.isCrashed
        THEN [vehs EXCEPT ![i].a = 0, ![i].v = 0]
        ELSE LET leader == getLeader(vehs, i, veh.lane)
                 idm == calculateAcceleration(veh.v, SpeedOf(vehs, leader),
                            GapTo(vehs, i, leader), veh.targetSpeed, config)
                 accCurrent ==
                     IF config.accelerationNoise > 0 /\ veh.v > NOISE_MIN_V
                     THEN idm + NoiseOf(draw, config) ELSE idm
                 withA == [vehs EXCEPT ![i].a = accCurrent]
             IN  IF veh.laneChangeTimer <= 0
                 THEN checkLaneChange(withA, i, accCurrent, config)
                 ELSE [withA EXCEPT ![i].laneChangeTimer = @ - dt]

RECURSIVE Decide(_, _, _, _, _)
Decide(vehs, i, noise, config, dt) ==
    IF i > Len(vehs) THEN vehs
    ELSE Decide(DecideOne(vehs, i, noise[i], config, dt), i + 1, noise,
                config, dt)

\* variant: the position is never advanced
IntegrateSpeedOnly(veh, dt) ==
    [veh EXCEPT !.v = Max(0, veh.v + MulQuot(veh.a, 10 * dt, TPS))]

\* 2. Euler integration and the visual lane interpolation of one vehicle
Integrate(veh, dt) ==
    LET v1 == Max(0, veh.v + MulQuot(veh.a, 10 * dt, TPS))
        x1 == veh.x + Quot(v1 * dt, TPS)
        dy == (dt * LATERAL_SPEED_X2 * YU) \div (2 * TPS)
        far == Abs(veh.y - YU * veh.lane) * SNAP_DEN > YU
    IN  [veh EXCEPT !.v = v1, !.x = x1,
                    !.y = IF far THEN @ + Sign(YU * veh.lane - @) * dy
                          ELSE YU * veh.lane,
                    !.laneChangeDirection = IF far THEN @ ELSE 0]

\* variant: a vehicle leaves only when its rear has passed the end
DespawnRear(veh, length) == veh.x - veh.length > length

\* Despawn
Despawn(veh, length) == veh.x > length

RECURSIVE IntegrateAll(_, _, _)
IntegrateAll(vehs, dt, length) ==
    IF vehs = <<>> THEN <<>>
    ELSE LET veh == Integrate(vehs[Len(vehs)], dt)
             rest == IntegrateAll(SubSeq(vehs, 1, Len(vehs) - 1), dt, length)
         IN  IF Despawn(veh, length) THEN rest ELSE Append(rest, veh)

(***************************************************************************)
(* Spawning.  rnd holds the Math.random() draws of one step, in            *)
(* hundredths: rnd.u for the arrival factor, rnd.truck for the type,       *)
(* rnd.speed for the desired speed, rnd.noise[i] for vehicle i's noise.    *)
(***************************************************************************)
getCarColor(targetSpeed) ==
    IF targetSpeed > 32 * MM THEN "cyan"
    ELSE IF targetSpeed > 28 * MM THEN "green" ELSE "amber"

\* the vehicle spawnVehicle pushes
NewVehicle(id, lane, truckRatio, rnd) ==
    LET isTruck == rnd.truck < truckRatio
        \* speedKmH in tenths: 85 + (r - 0.5) * 10, or 110 + (r - 0.5) * 20
        speedKmH == IF isTruck THEN 850 + (rnd.speed - 50)
                    ELSE 1100 + 2 * (rnd.speed - 50)
        targetSpeed == (speedKmH * 1000) \div 36
    IN  [id |-> id, x |-> 0, y |-> YU * lane, lane |-> lane,
         v |-> (targetSpeed * 9) \div 10, a |-> 0,
         length |-> IF isTruck THEN 14000 ELSE 4500,
         width |-> IF isTruck THEN 2600 ELSE 2000,
         type |-> IF isTruck THEN "TRUCK" ELSE "CAR",
         color |-> IF isTruck THEN "purple" ELSE getCarColor(targetSpeed),
         laneChangeTimer |-> 0, laneChangeDirection |-> 0,
         targetSpeed |-> targetSpeed, isCrashed |-> FALSE]

\* x of the last car of lane l, Infinity when the lane is empty
LastPos(vehs, l) ==
    LET xs == {vehs[j].x : j \in {k \in 1..Len(vehs) : vehs[k].lane = l}}
    IN  IF xs = {} THEN Infinity ELSE CHOOSE x \in xs : \A z \in xs : x <= z

\* variant: the comparison of the reduction inverted
BestLaneFullest(vehs) ==
    LET pick(i, j) == IF LastPos(vehs, i) < LastPos(vehs, j) THEN i ELSE j
    IN  pick(pick(0, 1), 2)

\* lanes.reduce((i, j) => lastPos[i] > lastPos[j] ? i : j) over [0, 1, 2]
BestLane(vehs) ==
    LET pick(i, j) == IF LastPos(vehs, i) > LastPos(vehs, j) THEN i ELSE j
    IN  pick(pick(0, 1), 2)

\* variant: a rate of 0 taken for a missing rate and replaced by the baseline
SpawnDueDefaultRate(tsls, config, rnd) ==
    tsls * (IF config.inflowRate = 0 THEN 2000 ELSE config.inflowRate)
        > (80 + (rnd.u * 40) \div 100) * 36 * TPS

\* variant: the arrival factor drawn from [0, 0.4)
SpawnDueNoFloor(tsls, config, rnd) ==
    /\ config.inflowRate > 0
    /\ tsls * config.inflowRate > ((rnd.u * 40) \div 100) * 36 * TPS

\* timeSinceLastSpawn > (Math.random() * 0.4 + 0.8) * 3600 / inflowRate,
\* cross-multiplied; with inflowRate = 0 the right side is Infinity
SpawnDue(tsls, config, rnd) ==
    /\ config.inflowRate > 0
    /\ tsls * config.inflowRate > (80 + (rnd.u * 40) \div 100) * 36 * TPS

\* whether handleSpawning pushes a vehicle, tsls being the advanced timer
Spawns(vehs, tsls, config, rnd) ==
    /\ SpawnDue(tsls, config, rnd)
    /\ LastPos(vehs, BestLane(vehs)) > SPAWN_CLEARANCE * MM

(***************************************************************************)
(* getStats: avgSpeed in m/h, density in veh per 1000 km, flow in veh/h    *)
(***************************************************************************)
\* variant: the ring itself is returned
SameArray(points) == [array |-> points, shared |-> TRUE]

\* [...this.fdPoints]: a new array holding the same samples
CopyOf(points) == [array |-> points, shared |-> FALSE]

RECURSIVE SumV(_, _)
SumV(vehs, k) == IF k > Len(vehs) THEN 0 ELSE vehs[k].v + SumV(vehs, k + 1)

getStats(vehs, length, points) ==
    LET count == Len(vehs)
    IN  IF count = 0
        THEN [count |-> 0, avgSpeed |-> 0, density |-> 0, flow |-> 0,
              points |-> CopyOf(points)]
        ELSE LET avgV == ((SumV(vehs, 1) \div count) * 36) \div 10
                 density == (count * 1000000) \div (length \div MM)
                 flow == (density * (avgV \div 100)) \div 10000
             IN  [count |-> count, avgSpeed |-> avgV, density |-> density,
                  flow |-> flow, points |-> CopyOf(points)]

\* variant: on overflow the newest sample is dropped (pop for shift)
CollectDropsNewest(points, vehs, length) ==
    LET stats == getStats(vehs, length, points)
        pushed == Append(points, [k |-> stats.density, q |-> stats.flow])
    IN  IF stats.count > 0
        THEN IF Len(pushed) > FD_MAX THEN SubSeq(pushed, 1, FD_MAX) ELSE pushed
        ELSE points

\* 4. the sample step() takes once statsTimer (advanced) passes 1.0
Collect(points, vehs, length) ==
    LET stats == getStats(vehs, length, points)
        pushed == Append(points, [k |-> stats.density, q |-> stats.flow])
    IN  IF stats.count > 0
        THEN IF Len(pushed) > FD_MAX THEN Tail(pushed) ELSE pushed
        ELSE points

(***************************************************************************)
(* Operations                                                              *)
(***************************************************************************)
\* variant: the counter is never advanced
NextIdStuck(id, spawn) == id

\* id: this.nextId++ when a vehicle is spawned
NextIdAfter(id, spawn) == IF spawn THEN id + 1 ELSE id

\* the fields of a TrafficModel that step() reads and writes
Self ==
    [vehicles |-> vehicles, roadLength |-> roadLength, nextId |-> nextId,
     timeSinceLastSpawn |-> timeSinceLastSpawn, fdPoints |-> fdPoints,
     statsTimer |-> statsTimer]

\* variant: the step follows the real duration of the frame
StepDtFrame(config, frameMs) == (config.timeScale * frameMs * 6) \div 100

\* const dt = DT * config.timeScale: the step is fixed, the real duration
\* of the frame (frameMs) is not used
StepDt(config, frameMs) == config.timeScale

\* step(config) on the model m, the draws of this step being rnd: the model
\* it leaves, and whether handleSpawning pushed a vehicle
StepOf(m, config, rnd, frameMs) ==
    LET dt == StepDt(config, frameMs)
        after1 == Decide(SortDesc(m.vehicles), 1, rnd.noise, config, dt)
        moved == IntegrateAll(after1, dt, m.roadLength)
        tsls == m.timeSinceLastSpawn + dt
        spawn == Spawns(moved, tsls, config, rnd)
        after == IF spawn
                 THEN Append(moved, NewVehicle(m.nextId, BestLane(moved),
                                               config.truckRatio, rnd))
                 ELSE moved
        timer == m.statsTimer + dt
        due == timer > STATS_PERIOD_SEC * TPS
    IN  [model |->
           [vehicles |-> after,
            roadLength |-> m.roadLength,
            nextId |-> NextIdAfter(m.nextId, spawn),
            timeSinceLastSpawn |-> IF spawn THEN 0 ELSE tsls,
            fdPoints |-> IF due THEN Collect(m.fdPoints, after, m.roadLength)
                         ELSE m.fdPoints,
            statsTimer |-> IF due THEN 0 ELSE timer],
         spawned |-> spawn,
         decided |-> after1]

\* what the arrays handed out by getStats() hold after the ring became ring
Seen(snap, ring) ==
    IF snap # Null /\ snap[1].stats.points.shared
    THEN <<[snap[1] EXCEPT !.stats.points.array = ring]>>
    ELSE snap

\* the ids of a list, and the lane of the vehicle of a list with a given id
IdsOf(vehs) == {vehs[k].id : k \in 1..Len(vehs)}

LaneOf(vehs, id) == vehs[CHOOSE k \in 1..Len(vehs) : vehs[k].id = id].lane

\* model.step(config), the draws of this step being rnd; a second run, if
\* there is one, takes the same call with the same draws in a frame of its own
Step(rnd) ==
    \E r \in {StepOf(Self, hostConfig, rnd, FRAME_MS)} :
    LET m == r.model
        spawn == r.spawned
    IN  /\ vehicles' = m.vehicles
        /\ nextId' = m.nextId
        /\ timeSinceLastSpawn' = m.timeSinceLastSpawn
        /\ fdPoints' = m.fdPoints
        /\ statsTimer' = m.statsTimer
        /\ steps' = steps + 1
        /\ simTime' = simTime + StepDt(hostConfig, FRAME_MS)
        /\ spawnLog' = IF spawn
                       THEN Append(spawnLog, <<epoch, nextId, simTime'>>)
                       ELSE spawnLog
        /\ snapshot' = Seen(snapshot, m.fdPoints)
        /\ decided' = r.decided
        /\ lastLaneChange' =
              [id \in IdsOf(m.vehicles) |->
                 IF id \notin IdsOf(vehicles) THEN -1
                 ELSE IF LaneOf(r.decided, id) # LaneOf(vehicles, id)
                      THEN simTime'
                      ELSE IF id \in DOMAIN lastLaneChange
                           THEN lastLaneChange[id] ELSE -1]
        /\ twin' = IF twin = Null THEN Null
                   ELSE <<StepOf(twin[1], hostConfig, rnd,
                                 TWIN_FRAME_MS).model>>
        /\ UNCHANGED <<roadLength, blockedLane, blockedLocation, timers,
                       hostConfig, epoch, minTarget, lastFired>>

\* this.vehicles.find(v => v.lane === 1 && v.x > 1000 && v.x < 4000): index or 0
RECURSIVE FindCandidate(_, _)
FindCandidate(vehs, k) ==
    IF k > Len(vehs) THEN 0
    ELSE IF /\ vehs[k].lane = INCIDENT_LANE
            /\ vehs[k].x > INCIDENT_X_MIN * MM
            /\ vehs[k].x < INCIDENT_X_MAX * MM
         THEN k ELSE FindCandidate(vehs, k + 1)

\* triggerAccident(); the timer keeps its vehicle object, named by the epoch
\* and id it was spawned with, and the time left until it fires
TriggerAccident ==
    LET c == FindCandidate(vehicles, 1)
    IN  IF c = 0 THEN UNCHANGED vars
        ELSE /\ vehicles' = [vehicles EXCEPT ![c].v = 0, ![c].color = "red",
                                             ![c].isCrashed = TRUE]
             /\ blockedLane' = <<vehicles[c].lane>>
             /\ blockedLocation' = <<vehicles[c].x>>
             /\ timers' = Append(timers, [epoch |-> epoch, id |-> vehicles[c].id,
                                          left |-> INCIDENT_MS])
             /\ UNCHANGED <<roadLength, nextId, timeSinceLastSpawn, fdPoints,
                            statsTimer, hostConfig, epoch, spawnLog, steps,
                            simTime, minTarget, lastFired, snapshot, twin, decided,
                   lastLaneChange>>

\* the setTimeout callback of the timer due first
Restore(veh) ==
    [veh EXCEPT !.isCrashed = FALSE,
                !.color = IF veh.type = "TRUCK" THEN "purple"
                          ELSE getCarColor(veh.targetSpeed)]

\* variant: the callback looks its vehicle up by id in the list
TimerFireById ==
    /\ timers # <<>>
    /\ Head(timers).left = 0
    /\ vehicles' = [k \in 1..Len(vehicles) |->
                      IF vehicles[k].id = Head(timers).id
                      THEN Restore(vehicles[k]) ELSE vehicles[k]]
    /\ blockedLane' = Null
    /\ blockedLocation' = Null
    /\ timers' = Tail(timers)
    /\ lastFired' = <<[epoch |-> Head(timers).epoch, id |-> Head(timers).id,
                       at |-> epoch]>>
    /\ UNCHANGED <<roadLength, nextId, timeSinceLastSpawn, fdPoints,
                   statsTimer, hostConfig, epoch, spawnLog, steps, simTime,
                   minTarget, snapshot, twin, decided,
                   lastLaneChange>>

\* the callback holds the vehicle object itself: it reaches a vehicle of
\* the list only if that very vehicle is still in it
TimerFire ==
    /\ timers # <<>>
    /\ Head(timers).left = 0
    /\ vehicles' = [k \in 1..Len(vehicles) |->
                      IF Head(timers).epoch = epoch
                           /\ vehicles[k].id = Head(timers).id
                      THEN Restore(vehicles[k]) ELSE vehicles[k]]
    /\ blockedLane' = Null
    /\ blockedLocation' = Null
    /\ timers' = Tail(timers)
    /\ lastFired' = <<[epoch |-> Head(timers).epoch, id |-> Head(timers).id,
                       at |-> epoch]>>
    /\ UNCHANGED <<roadLength, nextId, timeSinceLastSpawn, fdPoints,
                   statsTimer, hostConfig, epoch, spawnLog, steps, simTime,
                   minTarget, snapshot, twin, decided,
                   lastLaneChange>>

\* wall-clock time passes; a timer that is due fires before more time passes
TickMs == INCIDENT_MS \div 2

Tick ==
    /\ timers # <<>>
    /\ \A k \in 1..Len(timers) : timers[k].left >= TickMs
    /\ timers' = [k \in 1..Len(timers) |->
                    [timers[k] EXCEPT !.left = @ - TickMs]]
    /\ UNCHANGED <<vehicles, roadLength, nextId, timeSinceLastSpawn, fdPoints,
                   statsTimer, blockedLane, blockedLocation, hostConfig, epoch,
                   spawnLog, steps, simTime, minTarget, lastFired, snapshot,
                   twin, decided,
                   lastLaneChange>>

\* an array handed out by getStats() is left behind by this.fdPoints = []
Unshared(snap) ==
    IF snap = Null THEN Null
    ELSE <<[snap[1] EXCEPT !.stats.points.shared = FALSE]>>

\* variant: reset() that keeps the vehicle list
ResetKeepsVehicles ==
    /\ nextId' = 1
    /\ timeSinceLastSpawn' = 0
    /\ blockedLane' = Null
    /\ blockedLocation' = Null
    /\ fdPoints' = <<>>
    /\ epoch' = epoch + 1
    /\ snapshot' = Unshared(snapshot)
    /\ UNCHANGED <<vehicles, roadLength, statsTimer, timers, hostConfig,
                   spawnLog, steps, simTime, minTarget, lastFired, twin, decided,
                   lastLaneChange>>

\* variant: reset() that keeps the FD ring
ResetKeepsRing ==
    /\ vehicles' = <<>>
    /\ nextId' = 1
    /\ timeSinceLastSpawn' = 0
    /\ blockedLane' = Null
    /\ blockedLocation' = Null
    /\ epoch' = epoch + 1
    /\ UNCHANGED <<fdPoints, roadLength, statsTimer, timers, hostConfig,
                   spawnLog, steps, simTime, minTarget, lastFired, snapshot,
                   twin, decided,
                   lastLaneChange>>

\* reset()
Reset ==
    /\ vehicles' = <<>>
    /\ nextId' = 1
    /\ timeSinceLastSpawn' = 0
    /\ blockedLane' = Null
    /\ blockedLocation' = Null
    /\ fdPoints' = <<>>
    /\ epoch' = epoch + 1
    /\ snapshot' = Unshared(snapshot)
    /\ UNCHANGED <<roadLength, statsTimer, timers, hostConfig, spawnLog, steps,
                   simTime, minTarget, lastFired, twin, decided,
                   lastLaneChange>>

\* the host calls getStats() and keeps the result
GetStats ==
    /\ snapshot' = <<[stats |-> getStats(vehicles, roadLength, fdPoints),
                      edits |-> 0]>>
    /\ UNCHANGED <<vehicles, roadLength, nextId, timeSinceLastSpawn, fdPoints,
                   statsTimer, blockedLane, blockedLocation, timers,
                   hostConfig, epoch, spawnLog, steps, simTime, minTarget,
                   lastFired, twin, decided,
                   lastLaneChange>>

\* the host edits the points array it was given: push(p) or shift(); the
\* ring changes with it exactly if the array is the ring
EditPoints(push) ==
    /\ snapshot # Null
    /\ push \/ snapshot[1].stats.points.array # <<>>
    /\ LET old == snapshot[1].stats.points.array
           new == IF push THEN Append(old, [k |-> 0, q |-> 0])
                  ELSE Tail(old)
       IN  /\ snapshot' = <<[snapshot[1] EXCEPT !.stats.points.array = new,
                                                !.edits = @ + 1]>>
           /\ fdPoints' = IF snapshot[1].stats.points.shared THEN new
                          ELSE fdPoints
    /\ UNCHANGED <<vehicles, roadLength, nextId, timeSinceLastSpawn,
                   statsTimer, blockedLane, blockedLocation, timers,
                   hostConfig, epoch, spawnLog, steps, simTime, minTarget,
                   lastFired, twin, decided,
                   lastLaneChange>>

\* the control panel changes the configuration (setConfig)
SetConfig(c) ==
    /\ c # hostConfig
    /\ hostConfig' = c
    /\ UNCHANGED <<vehicles, roadLength, nextId, timeSinceLastSpawn, fdPoints,
                   statsTimer, blockedLane, blockedLocation, timers, epoch,
                   spawnLog, steps, simTime, minTarget, lastFired, snapshot,
                   twin, decided,
                   lastLaneChange>>

(***************************************************************************)
(* Initial states.  Fresh is the state after new TrafficModel(length); the *)
(* others are running states: the list sorted by x descending, ids below   *)
(* nextId, every vehicle inside the road, as step() leaves them.           *)
(***************************************************************************)
\* a vehicle on the road, built as NewVehicle builds it; speedKmH in tenths
Vehicle(id, isTruck, speedKmH, lane, x, v, a, timer) ==
    LET targetSpeed == (speedKmH * 1000) \div 36
    IN  [id |-> id, x |-> x, y |-> YU * lane, lane |-> lane, v |-> v, a |-> a,
         length |-> IF isTruck THEN 14000 ELSE 4500,
         width |-> IF isTruck THEN 2600 ELSE 2000,
         type |-> IF isTruck THEN "TRUCK" ELSE "CAR",
         color |-> IF isTruck THEN "purple" ELSE getCarColor(targetSpeed),
         laneChangeTimer |-> timer, laneChangeDirection |-> 0,
         targetSpeed |-> targetSpeed, isCrashed |-> FALSE]

\* a car with the mean desired speed, 110 km/h
Car(id, lane, x, v, a, timer) == Vehicle(id, FALSE, 1100, lane, x, v, a, timer)

\* the vehicles spawned before the run begins, since the last reset() (the
\* ep-th): time unknown (-1)
LogIn(ep, ids) == [k \in 1..Len(ids) |-> <<ep, ids[k], -1>>]

LogOf(ids) == LogIn(0, ids)

RECURSIVE MinTargetFrom(_, _)
MinTargetFrom(vehs, k) ==
    IF k > Len(vehs) THEN Infinity
    ELSE Min(vehs[k].targetSpeed, MinTargetFrom(vehs, k + 1))

\* second: whether a second run starts from the same model state; pending:
\* the timers of incidents triggered before the ep-th reset() that are
\* still to fire
InitRun(vehs, length, next, tsls, stats, c, points, second, pending, ep) ==
    /\ vehicles = vehs
    /\ roadLength = length
    /\ nextId = next
    /\ timeSinceLastSpawn = tsls
    /\ fdPoints = points
    /\ statsTimer = stats
    /\ blockedLane = Null
    /\ blockedLocation = Null
    /\ timers = pending
    /\ hostConfig = c
    /\ epoch = ep
    /\ spawnLog = LogIn(ep, [k \in 1..(next - 1) |-> k])
    /\ steps = 0
    /\ simTime = 0
    /\ minTarget = MinTargetFrom(vehs, 1)
    /\ lastFired = Null
    /\ decided = <<>>
    /\ lastLaneChange = [id \in IdsOf(vehs) |-> -1]
    /\ snapshot = Null
    /\ twin = IF second
              THEN <<[vehicles |-> vehs, roadLength |-> length,
                      nextId |-> next, timeSinceLastSpawn |-> tsls,
                      fdPoints |-> points, statsTimer |-> stats]>>
              ELSE Null

InitModel(vehs, length, next, tsls, stats, c, points, second) ==
    InitRun(vehs, length, next, tsls, stats, c, points, second, <<>>, 0)

InitState(vehs, length, next, tsls, stats, c, points) ==
    InitModel(vehs, length, next, tsls, stats, c, points, FALSE)

InitWith(vehs, length, next, tsls, stats, c) ==
    InitState(vehs, length, next, tsls, stats, c, <<>>)

Fresh(length, c) == InitWith(<<>>, length, 1, 0, 0, c)

\* A car about to leave the road, and three cars in the incident zone: one
\* on lane 0 just ahead of two on lane 1; the last of them changed lane a
\* little under three seconds ago.
IncidentScene ==
    <<Car(1, 2, 4999 * MM + 800, 30000, 5, 0),
      Car(2, 0, 2010 * MM, 25000, 80, 0),
      Car(3, 1, 2000 * MM, 25000, 80, 0),
      Car(4, 1, 1975 * MM + 500, 25000, -500, 60)>>

(***************************************************************************)
(* The host: it steps the model at its configuration, the draws of each    *)
(* step taken from small sets, and changes the configuration; accidents,   *)
(* resets and the wall clock interleave freely.                            *)
(***************************************************************************)
MaxSteps == 3
MaxTimers == 2
MaxResets == 1

\* the baseline without noise, and a fast, dense setting
Configs == {Cfg(2000, 10, 15, 2, 15, 150, 0), Cfg(3000, 50, 0, 5, 15, 150, 0)}

Init ==
    \E c \in Configs :
        \/ Fresh(5000 * MM, c)
        \/ InitWith(IncidentScene, 5000 * MM, 5, 500, 300, c)

NoiseDraws == IF hostConfig.accelerationNoise = 0 THEN {50} ELSE {0, 99}

Draws(us, trucks, speeds) ==
    [noise : [1..Len(vehicles) -> NoiseDraws], u : us, truck : trucks,
     speed : speeds]

StepAny ==
    /\ steps < MaxSteps
    /\ \E rnd \in Draws({0, 99}, {0}, {50}) : Step(rnd)

ConfigAny == \E c \in Configs : SetConfig(c)

Accident ==
    /\ Len(timers) < MaxTimers
    /\ TriggerAccident

ResetAny ==
    /\ epoch < MaxResets
    /\ Reset

Next == StepAny \/ ConfigAny \/ Accident \/ ResetAny \/ TimerFire \/ Tick

Spec == Init /\ [][Next]_vars

(***************************************************************************)
(* Boundary scenario: one vehicle 5 m before the end of the road at        *)
(* 30 m/s, stepped at the baseline configuration.                          *)
(***************************************************************************)
MaxBoundarySteps == 12

InitBoundary ==
    \E kind \in {<<TRUE, 800>>, <<TRUE, 900>>, <<FALSE, 1000>>, <<FALSE, 1200>>} :
      \E lane \in {1, 2} :
        InitWith(<<Vehicle(1, kind[1], kind[2], lane, 5000 * MM - 5 * MM,
                           30000, 0, 0)>>,
                 5000 * MM, 2, 0, 0, BaselineCfg)

StepBoundary ==
    /\ steps < MaxBoundarySteps
    /\ \E rnd \in Draws({50}, {99}, {50}) : Step(rnd)

SpecBoundary == InitBoundary /\ [][StepBoundary]_vars

(***************************************************************************)
(* Spawning and resets: a fast, dense inflow with trucks.                  *)
(***************************************************************************)
MaxIdSteps == 26

DenseCfg == Cfg(3000, 50, 40, 5, 15, 150, 0)

InitIds ==
    \/ Fresh(5000 * MM, DenseCfg)
    \/ InitWith(IncidentScene, 5000 * MM, 5, 500, 300, DenseCfg)

StepIds ==
    /\ steps < MaxIdSteps
    /\ \E rnd \in Draws({0, 99}, {0, 99}, {50}) : Step(rnd)

NextIds == StepIds \/ ResetAny

SpecIds == InitIds /\ [][NextIds]_vars

(***************************************************************************)
(* Draining: inflowRate = 0 on a short road, no incident; the host keeps   *)
(* stepping (requestAnimationFrame), so steps are weakly fair.             *)
(***************************************************************************)
MaxDrainSteps == 120

DrainConfigs == {Cfg(0, 50, 0, 2, 15, 150, 0), Cfg(0, 25, 0, 5, 15, 150, 0)}

\* a car as spawned; a car entering behind a truck; three lanes occupied
DrainScenes ==
    {<<Vehicle(1, FALSE, 1100, 2, 0, 27499, 0, 0)>>,
     <<Vehicle(1, TRUE, 850, 2, 60 * MM, 21000, 0, 0),
       Vehicle(2, FALSE, 1200, 2, 0, 29999, 0, 0)>>,
     <<Vehicle(1, FALSE, 1000, 0, 50 * MM, 20000, 0, 0),
       Vehicle(2, TRUE, 900, 1, 45 * MM, 22000, 0, 700),
       Vehicle(3, FALSE, 1100, 2, 0, 27499, 0, 0)>>}

InitDrain ==
    \E vehs \in DrainScenes : \E c \in DrainConfigs :
        InitWith(vehs, 100 * MM, Len(vehs) + 1, 0, 0, c)

StepDrain ==
    /\ steps < MaxDrainSteps
    /\ \E rnd \in Draws({50}, {50}, {50}) : Step(rnd)

\* the animation loop runs the next frame: step() is total, so a frame is
\* possible whenever the step bound allows one
Frame == steps < MaxDrainSteps /\ steps' = steps + 1

SpecDrain == InitDrain /\ [][StepDrain]_vars /\ WF_steps(Frame)

(***************************************************************************)
(* Two runs: the same model state, the same step(config) calls and the     *)
(* same draws, on displays of different frame rates; no incident.          *)
(***************************************************************************)
MaxTwinSteps == 4

TwinConfigs == {BaselineCfg, DenseCfg}

\* a car closing in on a truck on the middle lane
TwinScene ==
    <<Car(1, 1, 300 * MM, 25000, 0, 0),
      Vehicle(2, TRUE, 850, 1, 250 * MM, 22000, 0, 0)>>

InitTwin ==
    \E c \in TwinConfigs :
        \/ InitModel(<<>>, 5000 * MM, 1, 560, 580, c, <<>>, TRUE)
        \/ InitModel(TwinScene, 5000 * MM, 3, 560, 580, c, <<>>, TRUE)

StepTwin ==
    /\ steps < MaxTwinSteps
    /\ \E rnd \in Draws({0, 99}, {0, 99}, {50}) : Step(rnd)

ConfigTwin == \E c \in TwinConfigs : SetConfig(c)

NextTwin == StepTwin \/ ConfigTwin

SpecTwin == InitTwin /\ [][NextTwin]_vars

(***************************************************************************)
(* A model that has been running for minutes: the FD ring holds 199 or     *)
(* 200 samples and the next one is due.                                    *)
(***************************************************************************)
MaxRingSteps == 14

\* n past samples, all different: 1 to 40 vehicles at 80 to 100 km/h
WarmRing(n) ==
    [i \in 1..n |-> [k |-> 200 * (1 + (i - 1) \div 5),
                     q |-> 16 * (1 + (i - 1) \div 5) + ((i - 1) % 5)]]

InitRing ==
    \E n \in {FD_MAX - 1, FD_MAX} :
        \/ InitState(<<>>, 5000 * MM, 1, 0, 580, DenseCfg, WarmRing(n))
        \/ InitState(IncidentScene, 5000 * MM, 5, 0, 580, DenseCfg,
                     WarmRing(n))

StepRing ==
    /\ steps < MaxRingSteps
    /\ \E rnd \in Draws({0}, {0, 99}, {50}) : Step(rnd)

NextRing == StepRing \/ ResetAny \/ Accident

SpecRing == InitRing /\ [][NextRing]_vars

(***************************************************************************)
(* Incidents: accidents, resets and the wall clock around a few steps.     *)
(* In the second initial state the model was reset almost 8 s ago at       *)
(* timeScale 5 with an incident just triggered: the timer of that incident *)
(* is due, and the first car of the new run has reached the incident zone. *)
(***************************************************************************)
MaxIncidentSteps == 3

AccidentScene ==
    <<Car(2, 2, 2500 * MM, 30000, 0, 0),
      Car(1, 1, 2000 * MM, 25000, 80, 0)>>

NewRunScene ==
    <<Car(1, 1, 1100 * MM, 30000, 10, 0),
      Vehicle(2, TRUE, 850, 2, 800 * MM, 23000, 10, 0)>>

InitIncident ==
    \/ InitState(AccidentScene, 5000 * MM, 3, 0, 0, DenseCfg, <<>>)
    \/ InitRun(NewRunScene, 5000 * MM, 3, 0, 0, DenseCfg, <<>>, FALSE,
               <<[epoch |-> 0, id |-> 1, left |-> 0]>>, 1)

StepIncident ==
    /\ steps < MaxIncidentSteps
    /\ \E rnd \in Draws({0}, {0}, {50}) : Step(rnd)

NextIncident == StepIncident \/ Accident \/ ResetAny \/ TimerFire \/ Tick

SpecIncident == InitIncident /\ [][NextIncident]_vars

(***************************************************************************)
(* The host reads the statistics of a long-running model, keeps them and   *)
(* edits the points it was given, while steps and resets go on.            *)
(***************************************************************************)
MaxStatsSteps == 2
MaxEdits == 1

StepStats ==
    /\ steps < MaxStatsSteps
    /\ \E rnd \in Draws({0}, {0}, {50}) : Step(rnd)

EditAny ==
    /\ snapshot # Null
    /\ snapshot[1].edits < MaxEdits
    /\ \E push \in BOOLEAN : EditPoints(push)

NextStats == StepStats \/ ResetAny \/ GetStats \/ EditAny

SpecStats == InitRing /\ [][NextStats]_vars

(***************************************************************************)
(* One vehicle alone on the road: no inflow, no noise, no incident.  The   *)
(* vehicle is the slowest truck or the fastest car, at rest, at its spawn  *)
(* speed, or at or just below its desired speed.                           *)
(***************************************************************************)
MaxSoloSteps == 40

SoloConfigs ==
    {Cfg(0, ts, 15, 2, 15, acc, 0) : ts \in {1, 10, 50}, acc \in {50, 300}}

SoloScenes ==
    LET target(kmh) == (kmh * 1000) \div 36
        speeds(kmh) == {0, (target(kmh) * 9) \div 10, target(kmh) - 1,
                        target(kmh)}
    IN  {<<Vehicle(1, TRUE, 800, 1, 0, v, 0, 0)>> : v \in speeds(800)}
          \cup {<<Vehicle(1, FALSE, 1200, 1, 0, v, 0, 0)>> : v \in speeds(1200)}

InitSolo ==
    \E vehs \in SoloScenes : \E c \in SoloConfigs :
        InitWith(vehs, 5000 * MM, 2, 0, 0, c)

StepSolo ==
    /\ steps < MaxSoloSteps
    /\ \E rnd \in Draws({50}, {50}, {50}) : Step(rnd)

SpecSolo == InitSolo /\ [][StepSolo]_vars

(***************************************************************************)
(* The entry of the road under the highest inflow: an empty road, or slow  *)
(* vehicles within 40 m of the entry in all three lanes with an arrival    *)
(* overdue.                                                                *)
(***************************************************************************)
MaxSpawnSteps == 30

SpawnConfigs == {DenseCfg, Cfg(3000, 40, 40, 5, 15, 150, 0)}

EntryJam ==
    <<Vehicle(1, FALSE, 1100, 0, 39 * MM, 2000, 0, 0),
      Vehicle(3, FALSE, 1100, 2, 35 * MM, 2000, 0, 0),
      Vehicle(2, TRUE, 850, 1, 30 * MM, 1000, 0, 0)>>

InitSpawn ==
    \E c \in SpawnConfigs :
        \/ Fresh(5000 * MM, c)
        \/ InitWith(EntryJam, 5000 * MM, 4, 2 * TPS, 0, c)

StepSpawn ==
    /\ steps < MaxSpawnSteps
    /\ \E rnd \in Draws({0, 99}, {0, 99}, {50}) : Step(rnd)

SpecSpawn == InitSpawn /\ [][StepSpawn]_vars

(***************************************************************************)
(* Lane changes in traffic, without inflow and noise.                      *)
(*   Overtaking: a car (id 1) in lane 1 at its desired speed draws level   *)
(*   with a truck (id 2) in lane 2 at its own, a car following the truck.  *)
(*   Squeeze: a car (id 2) close behind a truck in lane 1, a fast car      *)
(*   close behind it in lane 0 and a car far behind it in lane 2.          *)
(*   Choice: the same car and truck with lanes 0 and 2 empty.              *)
(* The truck of the last two and the follower of the first have changed    *)
(* lanes shortly before.                                                   *)
(***************************************************************************)
MaxMobilSteps == 10

MobilConfigs ==
    {Cfg(0, ts, 15, pol, 15, 150, 0) : ts \in {25, 50}, pol \in {0, 2, 10}}

Overtaking ==
    <<Vehicle(2, TRUE, 850, 2, 2000 * MM, 23611, 0, 0),
      Vehicle(1, FALSE, 1100, 1, 2000 * MM - 1158, 30555, 0, 0),
      Vehicle(3, FALSE, 1100, 2, 1940 * MM, 23000, 0, 1000)>>

Squeeze ==
    <<Vehicle(1, TRUE, 850, 1, 2000 * MM, 20000, 0, 1500),
      Vehicle(2, FALSE, 1100, 1, 1970 * MM, 25000, 0, 0),
      Vehicle(3, FALSE, 1200, 0, 1962 * MM, 33000, 0, 0),
      Vehicle(4, FALSE, 1100, 2, 1820 * MM, 22000, 0, 0)>>

Choice ==
    <<Vehicle(1, TRUE, 850, 1, 2000 * MM, 20000, 0, 1500),
      Vehicle(2, FALSE, 1100, 1, 1970 * MM, 25000, 0, 0)>>

InitMobil ==
    \E vehs \in {Overtaking, Squeeze, Choice} : \E c \in MobilConfigs :
        InitWith(vehs, 5000 * MM, Len(vehs) + 1, 0, 0, c)

StepMobil ==
    /\ steps < MaxMobilSteps
    /\ \E rnd \in Draws({50}, {50}, {50}) : Step(rnd)

SpecMobil == InitMobil /\ [][StepMobil]_vars

(***************************************************************************)
(* A car alone in lane 0, at its desired speed in the incident zone.  The   *)
(* user moves the timeScale slider, or triggers an incident early on and   *)
(* leaves the slider alone from then on.                                   *)
(***************************************************************************)
MaxCooldownSteps == 45
MaxCrashStep == 2

CooldownConfigs == {Cfg(0, ts, 15, 2, 15, 150, 0) : ts \in {25, 50}}

InitCooldown ==
    \E c \in CooldownConfigs :
        InitWith(<<Vehicle(1, FALSE, 1100, 0, 1100 * MM, 30555, 0, 0)>>,
                 5000 * MM, 2, 0, 0, c)

StepCooldown ==
    /\ steps < MaxCooldownSteps
    /\ \E rnd \in Draws({50}, {50}, {50}) : Step(rnd)

ConfigCooldown ==
    /\ timers = <<>>
    /\ lastFired = Null
    /\ \E c \in CooldownConfigs : SetConfig(c)

AccidentCooldown ==
    /\ steps <= MaxCrashStep
    /\ simTime = 50 * steps
    /\ Accident

NextCooldown ==
    StepCooldown \/ ConfigCooldown \/ AccidentCooldown \/ TimerFire \/ Tick

SpecCooldown == InitCooldown /\ [][NextCooldown]_vars

(***************************************************************************)
(* A car alone on the road at its entry speed, in lane 1 or 2, under       *)
(* every combination of the extreme politeness and noise settings.         *)
(***************************************************************************)
MaxFreeSteps == 3

FreeConfigs ==
    {Cfg(0, 50, 15, pol, 15, 150, noise) : pol \in {0, 10}, noise \in {0, 5, 10}}

InitFree ==
    \E lane \in {1, 2} : \E c \in FreeConfigs :
        InitWith(<<Car(1, lane, 0, 27499, 0, 0)>>, 5000 * MM, 2, 0, 0, c)

StepFree ==
    /\ steps < MaxFreeSteps
    /\ \E rnd \in Draws({50}, {50}, {50}) : Step(rnd)

SpecFree == InitFree /\ [][StepFree]_vars

(***************************************************************************)
(* A car alone in lane 0 at the start of the incident zone: it moves to    *)
(* lane 1 in its first step, where an incident can stop it, again and      *)
(* again, on its way to its lane.  The animation loop keeps running        *)
(* frames.                                                                 *)
(***************************************************************************)
MaxLateralSteps == 30

LateralConfigs == {Cfg(0, ts, 15, 2, 15, 150, 0) : ts \in {10, 24, 25, 32, 50}}

InitLateral ==
    \E c \in LateralConfigs :
        InitWith(<<Car(1, 0, 1100 * MM, 27499, 0, 0)>>, 5000 * MM, 2, 0, 0, c)

StepLateral ==
    /\ steps < MaxLateralSteps
    /\ \E rnd \in Draws({50}, {50}, {50}) : Step(rnd)

FrameLateral == steps < MaxLateralSteps /\ steps' = steps + 1

AccidentLateral ==
    /\ steps <= MaxCrashStep
    /\ Accident

NextLateral == StepLateral \/ AccidentLateral \/ TimerFire \/ Tick

SpecLateral == InitLateral /\ [][NextLateral]_vars /\ WF_steps(FrameLateral)

(***************************************************************************)
(* Properties                                                              *)
(***************************************************************************)
OnRoad(id) == \E k \in 1..Len(vehicles) : vehicles[k].id = id

Crashed == {k \in 1..Len(vehicles) : vehicles[k].isCrashed}

\* C1: at most one vehicle of the list is marked crashed, in every state
\* reachable by step, triggerAccident, reset and timer firings.
C1_AtMostOneCrashed == Cardinality(Crashed) <= 1

\* C2: a restoration timer scheduled before a reset() never fires after it:
\* every timer that fires belongs to an incident of the current epoch.
C2_ResetCancelsTimer == [][TimerFire => Head(timers).epoch = epoch]_vars

\* C3: triggerAccident() called while a vehicle is crashed changes neither
\* the vehicle list, nor the incident record, nor the pending timers.
C3_TriggerIdempotent ==
    [][(TriggerAccident /\ Crashed # {})
         => UNCHANGED <<vehicles, blockedLane, blockedLocation, timers>>]_vars

\* C5: every vehicle in the list has v >= 0, 0 <= x <= roadLength and a lane
\* in {0, 1, 2}.
C5_VehicleInvariant ==
    \A k \in 1..Len(vehicles) :
        /\ vehicles[k].v >= 0
        /\ vehicles[k].x >= 0
        /\ vehicles[k].x <= roadLength
        /\ vehicles[k].lane \in 0..(LANES - 1)

\* after steps: a vehicle has left at the end, one has been spawned, one has
\* just changed lane and one is crashed
C5_Witness ==
    /\ steps >= 2
    /\ ~OnRoad(1)
    /\ Len(spawnLog) > 4
    /\ Crashed # {}
    /\ \E k \in 1..Len(vehicles) :
           vehicles[k].laneChangeTimer > (COOLDOWN_SEC - 1) * TPS

\* C6: laneChangeTimer >= 0 for every vehicle in every reachable state.
C6_TimerNonNegative ==
    \A k \in 1..Len(vehicles) : vehicles[k].laneChangeTimer >= 0

\* C7: a vehicle marked crashed has v = 0 and a = 0 in every state, also
\* right after triggerAccident() and before the next step().
C7_CrashedPinned ==
    \A k \in Crashed : vehicles[k].v = 0 /\ vehicles[k].a = 0

\* C4 as stated: the vehicle 5 m before the end at 30 m/s is removed within
\* one step at the baseline configuration.
C4_RemovedWithinOneStep == steps >= 1 => ~OnRoad(1)

\* C4 amended: it is removed after 10 or 11 steps: still in the list after
\* fewer than 10 steps, gone after 11.
C4_RemovedWithinElevenSteps ==
    /\ steps < 10 => OnRoad(1)
    /\ steps >= 11 => ~OnRoad(1)

C4_Witness == steps = 10 /\ ~OnRoad(1)

\* C8 as stated: over the whole lifetime, across reset(), every spawned id is
\* greater than every id assigned before.
C8_IdsIncreaseForever ==
    \A i, j \in 1..Len(spawnLog) : i < j => spawnLog[i][2] < spawnLog[j][2]

\* C8 amended: ids are strictly increasing between two resets.
C8_IdsIncreaseBetweenResets ==
    \A i, j \in 1..Len(spawnLog) :
        (i < j /\ spawnLog[i][1] = spawnLog[j][1])
            => spawnLog[i][2] < spawnLog[j][2]

C8_Witness ==
    \E i, j \in 1..Len(spawnLog) :
        i < j /\ spawnLog[i][1] = 1 /\ spawnLog[j][1] = 1

\* C9: no two vehicles of the list share an id, and nextId is greater than
\* every id in the list.
C9_UniqueIds ==
    /\ \A i, j \in 1..Len(vehicles) :
           i # j => vehicles[i].id # vehicles[j].id
    /\ \A k \in 1..Len(vehicles) : vehicles[k].id < nextId

C9_Witness == epoch = 1 /\ Len(vehicles) >= 2

\* C10 as stated: with inflowRate = 0 the list is empty once the simulated
\* time exceeds roadLength / min(targetSpeed).
C10_DrainedByDeadline ==
    (minTarget < Infinity /\ simTime * minTarget > roadLength * TPS)
        => Len(vehicles) = 0

\* C10 amended: with inflowRate = 0 and steps going on, the list becomes
\* empty after finitely many steps.
C10_EventuallyDrained == <>(Len(vehicles) = 0)

C10_Witness ==
    /\ minTarget < Infinity
    /\ simTime * minTarget > roadLength * TPS
    /\ Len(vehicles) = 0

\* C11: with inflowRate = 0 no step adds a vehicle: the count does not grow,
\* no id is assigned and timeSinceLastSpawn keeps growing by dt.
C11_NoSpawnAtZeroInflow ==
    [][hostConfig.inflowRate = 0
         => /\ Len(vehicles') <= Len(vehicles)
            /\ nextId' = nextId
            /\ timeSinceLastSpawn'
                 = timeSinceLastSpawn + hostConfig.timeScale]_vars

\* steps were taken at rate 0 with vehicles on the road, the entry clear and
\* the timer beyond what any draw asks for at the baseline rate
C11_Witness ==
    /\ hostConfig.inflowRate = 0
    /\ steps > 0
    /\ vehicles # <<>>
    /\ timeSinceLastSpawn * 2000 > 120 * 36 * TPS
    /\ LastPos(vehicles, BestLane(vehicles)) > SPAWN_CLEARANCE * MM

C13_RingFifo ==
    /\ [](Len(fdPoints) <= FD_MAX)
    /\ [][steps' = steps + 1
            => IF statsTimer' = 0 /\ vehicles' # <<>>
               THEN /\ fdPoints' # <<>>
                    /\ fdPoints' =
                         Append(IF Len(fdPoints) < FD_MAX THEN fdPoints
                                ELSE Tail(fdPoints),
                                fdPoints'[Len(fdPoints')])
               ELSE fdPoints' = fdPoints]_vars

\* a full ring has taken a sample: the oldest of the past samples is gone
\* and the newest entry is the sample of the vehicles now on the road
C13_Witness ==
    /\ epoch = 0
    /\ Len(fdPoints) = FD_MAX
    /\ fdPoints[1] # WarmRing(FD_MAX)[1]
    /\ fdPoints[1] # WarmRing(FD_MAX)[2]
    /\ fdPoints[FD_MAX - 2] = WarmRing(FD_MAX)[FD_MAX]

\* the vehicle the timer due first was scheduled for is still in the list
TimerVehicleListed ==
    /\ timers # <<>>
    /\ Head(timers).epoch = epoch
    /\ OnRoad(Head(timers).id)

\* C14: when the vehicle of the timer that fires is no longer in the list,
\* the firing changes no vehicle of the list, and blockedLane and
\* blockedLocation are null afterwards.
C14_StaleRestoreHarmless ==
    [][(TimerFire /\ ~TimerVehicleListed)
         => /\ vehicles' = vehicles
            /\ blockedLane' = Null
            /\ blockedLocation' = Null]_vars

\* a timer scheduled before the reset has fired after it, while a vehicle of
\* the new run was crashed: that vehicle is still crashed
C14_Witness ==
    /\ lastFired # Null
    /\ lastFired[1].epoch < lastFired[1].at
    /\ lastFired[1].at = epoch
    /\ \E k \in Crashed : vehicles[k].id = lastFired[1].id
    /\ blockedLane = Null
    /\ blockedLocation = Null

\* C15: the crashed flag of a vehicle is not cleared before 8 s have passed
\* since the triggerAccident() call that marked it: when the flag is
\* cleared, no timer scheduled for that vehicle still has time to run.
C15_ClearedAfterEightSeconds ==
    [][\A k \in 1..Len(vehicles) :
         (/\ epoch' = epoch
          /\ vehicles[k].isCrashed
          /\ k <= Len(vehicles')
          /\ vehicles'[k].id = vehicles[k].id
          /\ ~vehicles'[k].isCrashed)
           => ~\E j \in 1..Len(timers') :
                  /\ timers'[j].epoch = epoch
                  /\ timers'[j].id = vehicles[k].id
                  /\ timers'[j].left > 0]_vars

\* C16: after reset(), from any state, the vehicle list and the FD ring are
\* empty, blockedLane and blockedLocation are null, nextId = 1 and
\* timeSinceLastSpawn = 0; roadLength is unchanged (the lane count is the
\* constant LANES).
C16_ResetPostcondition ==
    [][epoch' # epoch
         => /\ vehicles' = <<>>
            /\ fdPoints' = <<>>
            /\ blockedLane' = Null
            /\ blockedLocation' = Null
            /\ nextId' = 1
            /\ timeSinceLastSpawn' = 0
            /\ roadLength' = roadLength]_vars

\* reset() has just been called on a model that had stepped, held vehicles
\* and a filled ring, and had an incident active
C16_Witness ==
    /\ epoch = 1
    /\ steps > 0
    /\ Len(spawnLog) >= 4
    /\ timers # <<>>
    /\ vehicles = <<>>
    /\ fdPoints = <<>>
    /\ timeSinceLastSpawn = 0
    /\ blockedLane = Null

\* the model's own fields
Model ==
    <<vehicles, roadLength, nextId, timeSinceLastSpawn, fdPoints, statsTimer,
      blockedLane, blockedLocation, timers>>

\* C17: getStats() changes nothing of the model and returns the samples of
\* the ring (all zeros on a model without vehicles); editing the returned
\* points does not change the ring, and neither a later step nor a reset
\* changes the points the host holds.
C17_GetStatsPure ==
    /\ [][GetStats
            => /\ UNCHANGED Model
               /\ snapshot'[1].stats.points.array = fdPoints
               /\ snapshot'[1].stats.count = Len(vehicles)
               /\ vehicles = <<>>
                    => /\ snapshot'[1].stats.avgSpeed = 0
                       /\ snapshot'[1].stats.density = 0
                       /\ snapshot'[1].stats.flow = 0]_vars
    /\ [][(snapshot # Null /\ snapshot'[1].edits > snapshot[1].edits)
            => UNCHANGED Model]_vars
    /\ [][(steps' # steps \/ epoch' # epoch) => snapshot' = snapshot]_vars

\* the host holds the points of a full ring and has edited them; since then
\* a step has pushed a sample and discarded the oldest one, which the host's
\* points still begin with
C17_Witness ==
    /\ snapshot # Null
    /\ snapshot[1].edits > 0
    /\ snapshot[1].stats.points.array # <<>>
    /\ snapshot[1].stats.points.array[1] = WarmRing(FD_MAX)[1]
    /\ Len(fdPoints) = FD_MAX
    /\ fdPoints[1] = WarmRing(FD_MAX)[2]

\* C18: a single vehicle without a leader, inflow, noise or incident never
\* loses speed from one step to the next and never exceeds its targetSpeed,
\* at every timeScale.
C18_SoloSpeedMonotone ==
    [][(vehicles # <<>> /\ vehicles' # <<>>)
         => /\ vehicles'[1].v >= vehicles[1].v
            /\ vehicles'[1].v <= vehicles'[1].targetSpeed]_vars

\* at timeScale 5.0 a vehicle has gained speed in every one of its steps and
\* is close to its desired speed, which it has not reached
C18_Witness ==
    /\ steps = MaxSoloSteps
    /\ hostConfig.timeScale = 50
    /\ Len(vehicles) = 1
    /\ vehicles[1].a > 0
    /\ vehicles[1].v * 100 > vehicles[1].targetSpeed * 95
    /\ vehicles[1].v < vehicles[1].targetSpeed - 1

\* the largest LastPos of the three lanes
BestClearance(vehs) ==
    CHOOSE x \in {LastPos(vehs, l) : l \in 0..(LANES - 1)} :
        \A l \in 0..(LANES - 1) : x >= LastPos(vehs, l)

\* C19: a step adds at most one vehicle; the vehicle enters a lane whose
\* last vehicle (none: Infinity) is at least as far from the entry as that of
\* every other lane and more than 40 m from it, and timeSinceLastSpawn is
\* reset to 0; when no lane has more than 40 m nothing is added, nextId
\* stays and timeSinceLastSpawn keeps counting.
C19_SpawnLane ==
    [][steps' = steps + 1
         => LET Older(w) == w.id < nextId
                before == SelectSeq(vehicles', Older)
                dt == StepDt(hostConfig, FRAME_MS)
            IN  /\ nextId' \in {nextId, nextId + 1}
                /\ Len(vehicles') = Len(before) + (nextId' - nextId)
                /\ nextId' = nextId + 1
                     => LET new == vehicles'[Len(vehicles')]
                        IN  /\ new.id = nextId
                            /\ new.x = 0
                            /\ LastPos(before, new.lane) = BestClearance(before)
                            /\ LastPos(before, new.lane) > SPAWN_CLEARANCE * MM
                            /\ timeSinceLastSpawn' = 0
                /\ nextId' = nextId
                     => timeSinceLastSpawn' = timeSinceLastSpawn + dt
                /\ BestClearance(before) <= SPAWN_CLEARANCE * MM
                     => /\ nextId' = nextId
                        /\ vehicles' = before]_vars

\* a vehicle has entered behind a vehicle that is between 40 m and 45 m
\* from the entry, each of the other two lanes holding a vehicle within
\* 40 m; the arrival had been overdue while all three lanes were blocked
C19_Witness ==
    /\ Len(vehicles) = 4
    /\ nextId = 5
    /\ vehicles[4].id = 4
    /\ vehicles[4].x = 0
    /\ timeSinceLastSpawn = 0
    /\ steps > 1
    /\ \A l \in 0..(LANES - 1) :
          \E i \in 1..3 :
              /\ vehicles[i].lane = l
              /\ IF l = vehicles[4].lane
                 THEN vehicles[i].x > 40 * MM /\ vehicles[i].x < 45 * MM
                 ELSE vehicles[i].x <= 40 * MM

\* C20: a step spawns only if timeSinceLastSpawn, advanced by dt, exceeds
\* 0.8 * 3600 / inflowRate, so that two successive spawns of a run with a
\* constant inflowRate lie more than that far apart in simulated time; and
\* a step in which it exceeds 1.2 * 3600 / inflowRate spawns if the best
\* lane has more than 40 m of clearance.
C20_SpawnHeadway ==
    /\ [](\A k \in 1..(Len(spawnLog) - 1) :
            (/\ spawnLog[k][1] = spawnLog[k + 1][1]
             /\ spawnLog[k][3] >= 0)
              => (spawnLog[k + 1][3] - spawnLog[k][3]) * hostConfig.inflowRate
                   > 80 * 36 * TPS)
    /\ [][steps' = steps + 1
            => LET Older(w) == w.id < nextId
                   before == SelectSeq(vehicles', Older)
                   tsls == timeSinceLastSpawn + StepDt(hostConfig, FRAME_MS)
               IN  /\ nextId' # nextId
                        => tsls * hostConfig.inflowRate > 80 * 36 * TPS
                   /\ (/\ tsls * hostConfig.inflowRate > 120 * 36 * TPS
                       /\ BestClearance(before) > SPAWN_CLEARANCE * MM)
                        => nextId' = nextId + 1]_vars

\* two successive spawns of the run, the second less than the mean
\* interarrival time 3600 / inflowRate after the first
C20_Witness ==
    /\ Len(spawnLog) >= 2
    /\ LET k == Len(spawnLog) - 1
       IN  /\ spawnLog[k][1] = spawnLog[k + 1][1]
           /\ spawnLog[k][3] >= 0
           /\ (spawnLog[k + 1][3] - spawnLog[k][3]) * hostConfig.inflowRate
                < 100 * 36 * TPS

(***************************************************************************)
(* The list a vehicle decides on.  Phase 1 of step() visits the sorted     *)
(* list in order, so the i-th vehicle sees the lanes the vehicles before   *)
(* it have chosen in this step and the lanes the others had before it.     *)
(***************************************************************************)
\* the vehicle of the list before the step that has the given id
PreOf(id) == vehicles[CHOOSE k \in 1..Len(vehicles) : vehicles[k].id = id]

\* the list as the i-th vehicle of the step being taken finds it
At(i) ==
    [j \in 1..Len(decided') |->
       IF j < i THEN decided'[j]
       ELSE [decided'[j] EXCEPT
               !.lane = PreOf(decided'[j].id).lane,
               !.laneChangeTimer = PreOf(decided'[j].id).laneChangeTimer,
               !.laneChangeDirection =
                   PreOf(decided'[j].id).laneChangeDirection]]

\* the other vehicles of lane l strictly ahead of / behind the i-th, and
\* the nearest of them
Ahead(vehs, i, l) ==
    {j \in 1..Len(vehs) : /\ vehs[j].id # vehs[i].id
                          /\ vehs[j].lane = l
                          /\ vehs[j].x > vehs[i].x}

Behind(vehs, i, l) ==
    {j \in 1..Len(vehs) : /\ vehs[j].id # vehs[i].id
                          /\ vehs[j].lane = l
                          /\ vehs[j].x < vehs[i].x}

NearestAhead(vehs, i, l) ==
    {j \in Ahead(vehs, i, l) : \A k \in Ahead(vehs, i, l) : vehs[j].x <= vehs[k].x}

NearestBehind(vehs, i, l) ==
    {j \in Behind(vehs, i, l) : \A k \in Behind(vehs, i, l) : vehs[j].x >= vehs[k].x}

\* C22: a vehicle that changes lane leaves the nearest vehicle behind it on
\* the target lane, if there is one, an acceleration of at least -3.0 m/s^2
\* with the subject as its leader, on the list as it stood at that decision.
C22_FollowerSafe ==
    [][steps' = steps + 1
         => \A i \in 1..Len(decided') :
              decided'[i].lane # PreOf(decided'[i].id).lane
                => \A f \in NearestBehind(At(i), i, decided'[i].lane) :
                     calculateAcceleration(At(i)[f].v, <<At(i)[i].v>>,
                         <<At(i)[i].x - At(i)[f].x - At(i)[i].length>>,
                         At(i)[f].targetSpeed, hostConfig) >= -SAFE_DECEL]_vars

\* the car behind the truck has moved to lane 2, where a car follows it at
\* a safe distance, and not to lane 0, where the car behind it would have
\* had to brake harder than 3.0 m/s^2
C22_Witness ==
    /\ steps = 1
    /\ Len(vehicles) = 4
    /\ \E i, f, g \in 1..4 :
          /\ vehicles[i].id = 2 /\ vehicles[i].lane = 2
          /\ vehicles[i].laneChangeTimer = COOLDOWN_SEC * TPS
          /\ vehicles[f].id = 3 /\ vehicles[f].lane = 0
          /\ vehicles[g].id = 4 /\ vehicles[g].lane = 2
          /\ vehicles[g].x < vehicles[i].x
          /\ calculateAcceleration(vehicles[f].v, <<vehicles[i].v>>,
                 <<vehicles[i].x - vehicles[f].x - vehicles[i].length>>,
                 vehicles[f].targetSpeed, hostConfig) < -SAFE_DECEL

\* a candidate lane passes both criteria of checkLaneChange for the i-th
\* vehicle, whose current-lane acceleration phase 1 has stored in a
Qualifies(i, l) ==
    /\ l \in 0..(LANES - 1)
    /\ ~Unsafe(At(i), i, l, hostConfig)
    /\ TotalIncentive(At(i), i, l, decided'[i].a, hostConfig) > MOBIL_THRESHOLD

\* C23: a vehicle for which MOBIL is evaluated takes lane - 1 if that lane
\* qualifies, else lane + 1 if that one does: its lane becomes the target,
\* its laneChangeTimer 3.0 s and its laneChangeDirection the sign of
\* target - y; if neither qualifies the three fields stay.  No vehicle
\* moves by more than one lane in a step.
C23_FirstCandidateCommits ==
    [][steps' = steps + 1
         => \A i \in 1..Len(decided') :
              LET pre == PreOf(decided'[i].id)
                  post == decided'[i]
                  first == IF Qualifies(i, pre.lane - 1) THEN pre.lane - 1
                           ELSE pre.lane + 1
              IN  /\ Abs(post.lane - pre.lane) <= 1
                  /\ (~pre.isCrashed /\ pre.laneChangeTimer <= 0)
                       => IF Qualifies(i, pre.lane - 1)
                               \/ Qualifies(i, pre.lane + 1)
                          THEN /\ post.lane = first
                               /\ post.laneChangeTimer = COOLDOWN_SEC * TPS
                               /\ post.laneChangeDirection
                                    = Sign(YU * first - pre.y)
                          ELSE /\ post.lane = pre.lane
                               /\ post.laneChangeTimer = pre.laneChangeTimer
                               /\ post.laneChangeDirection
                                    = pre.laneChangeDirection]_vars

\* the car behind the truck, with lanes 0 and 2 both empty, has moved to
\* lane 0
C23_Witness ==
    /\ steps = 1
    /\ Len(vehicles) = 2
    /\ vehicles[2].id = 2
    /\ vehicles[2].lane = 0
    /\ vehicles[2].laneChangeTimer = COOLDOWN_SEC * TPS
    /\ vehicles[2].laneChangeDirection = -1
    /\ vehicles[1].lane = 1

\* the lists the neighbour queries are asked about
Lists == {vehicles, decided}

\* C24: on every list, for every vehicle and lane, getLeader returns one of
\* the nearest other vehicles of the lane strictly ahead, getFollower one of
\* the nearest strictly behind, and null exactly if there is none.
C24_NearestNeighbour ==
    \A vehs \in Lists : \A i \in 1..Len(vehs) : \A l \in 0..(LANES - 1) :
        /\ IF Ahead(vehs, i, l) = {} THEN getLeader(vehs, i, l) = 0
           ELSE getLeader(vehs, i, l) \in NearestAhead(vehs, i, l)
        /\ IF Behind(vehs, i, l) = {} THEN getFollower(vehs, i, l) = 0
           ELSE getFollower(vehs, i, l) \in NearestBehind(vehs, i, l)

\* the list is out of order after an overtaking, and in phase 1 of the last
\* step two vehicles of a lane were level, a third one following them
C24_Witness ==
    /\ \E i, j \in 1..Len(vehicles) : i < j /\ vehicles[i].x < vehicles[j].x
    /\ \E i, j \in 1..Len(decided) :
          /\ i # j
          /\ decided[i].x = decided[j].x
          /\ decided[i].lane = decided[j].lane
    /\ \E i \in 1..Len(decided) :
          getLeader(decided, i, decided[i].lane) # 0

\* C25: of several nearest vehicles at the same distance, getLeader and
\* getFollower return the one with the smallest id.
C25_TieSmallestId ==
    \A vehs \in Lists : \A i \in 1..Len(vehs) : \A l \in 0..(LANES - 1) :
        /\ getLeader(vehs, i, l) # 0
             => \A k \in NearestAhead(vehs, i, l) :
                    vehs[getLeader(vehs, i, l)].id <= vehs[k].id
        /\ getFollower(vehs, i, l) # 0
             => \A k \in NearestBehind(vehs, i, l) :
                    vehs[getFollower(vehs, i, l)].id <= vehs[k].id

\* C28: a vehicle that changes lane overlaps no vehicle of the target lane
\* lengthwise, on the list as it stood at that decision.
C28_NoOverlapAtCommit ==
    [][steps' = steps + 1
         => \A i \in 1..Len(decided') :
              decided'[i].lane # PreOf(decided'[i].id).lane
                => \A o \in 1..Len(decided') :
                     (o # i /\ At(i)[o].lane = decided'[i].lane)
                       => \/ At(i)[o].x - At(i)[o].length >= At(i)[i].x
                          \/ At(i)[i].x - At(i)[i].length >= At(i)[o].x]_vars

\* C21: a vehicle whose laneChangeTimer is positive, or that is crashed,
\* keeps its lane in the step; and a vehicle changes lane no sooner than
\* 3.0 s of simulated time after its last lane change.
C21_Cooldown ==
    [][steps' = steps + 1
         => \A k \in 1..Len(vehicles) :
              LET pre == vehicles[k]
                  lane == LaneOf(decided', pre.id)
              IN  /\ (pre.laneChangeTimer > 0 \/ pre.isCrashed)
                       => lane = pre.lane
                  /\ (lane # pre.lane /\ lastLaneChange[pre.id] >= 0)
                       => simTime' - lastLaneChange[pre.id]
                            >= COOLDOWN_SEC * TPS]_vars

\* the car has just changed lane for the second time, some of the steps in
\* between having been taken at timeScale 2.5 and the others at 5.0
C21_Witness ==
    /\ Len(vehicles) = 1
    /\ vehicles[1].lane = 2
    /\ vehicles[1].laneChangeTimer = COOLDOWN_SEC * TPS
    /\ lastLaneChange[1] = simTime
    /\ simTime % 50 = 25
    /\ simTime > 25 * steps

\* C26: a step leaves a crashed vehicle in the list with its x, lane and
\* laneChangeTimer unchanged and v = a = 0; and in phase 1 of the step
\* getLeader and getFollower return it to the vehicles whose only nearest
\* neighbour on its lane it is.
C26_CrashedPinned ==
    [][steps' = steps + 1
         => \A k \in Crashed :
              /\ \E j \in 1..Len(vehicles') :
                    /\ vehicles'[j].id = vehicles[k].id
                    /\ vehicles'[j].isCrashed
                    /\ vehicles'[j].x = vehicles[k].x
                    /\ vehicles'[j].lane = vehicles[k].lane
                    /\ vehicles'[j].laneChangeTimer = vehicles[k].laneChangeTimer
                    /\ vehicles'[j].v = 0
                    /\ vehicles'[j].a = 0
              /\ \A c, i \in 1..Len(decided') :
                    decided'[c].id = vehicles[k].id
                      => /\ NearestAhead(decided', i, decided'[c].lane) = {c}
                            => getLeader(decided', i, decided'[c].lane) = c
                         /\ NearestBehind(decided', i, decided'[c].lane) = {c}
                            => getFollower(decided', i, decided'[c].lane) = c]_vars

\* a crashed vehicle whose laneChangeTimer has run out has been through a
\* step, in which it was the leader of the vehicle behind it on its lane
C26_Witness ==
    /\ steps >= 1
    /\ \E c \in Crashed :
          /\ vehicles[c].laneChangeTimer <= 0
          /\ \E j, i \in 1..Len(decided) :
                /\ decided[j].id = vehicles[c].id
                /\ decided[j].isCrashed
                /\ i # j
                /\ decided[i].lane = decided[j].lane
                /\ getLeader(decided, i, decided[i].lane) = j

\* no other vehicle ahead of or behind the k-th on its lane or a lane next
\* to it
FreeRoad(k) ==
    \A l \in {vehicles[k].lane - 1, vehicles[k].lane, vehicles[k].lane + 1} :
        Ahead(vehicles, k, l) = {} /\ Behind(vehicles, k, l) = {}

\* C29: a vehicle on a free road never changes to a lane of lower index.
C29_KeepRight ==
    [][steps' = steps + 1
         => \A k \in 1..Len(vehicles) :
              FreeRoad(k)
                => LaneOf(decided', vehicles[k].id) >= vehicles[k].lane]_vars

\* a vehicle of the list is on its way to its lane
Turning == \E k \in 1..Len(vehicles) : vehicles[k].laneChangeDirection # 0

\* every vehicle of the list is on its lane with its signal off
Settled ==
    \A k \in 1..Len(vehicles) :
        /\ vehicles[k].y = YU * vehicles[k].lane
        /\ vehicles[k].laneChangeDirection = 0

Constructed(length) ==
    [vehicles |-> <<>>, roadLength |-> length, nextId |-> 1,
     timeSinceLastSpawn |-> 0, fdPoints |-> <<>>, statsTimer |-> 0]

\* C30: reset() leaves the model as its constructor does for the same
\* roadLength, so that the steps after it sample and spawn as those of a
\* new model.
C30_ResetIsFresh ==
    [][epoch' # epoch
         => /\ Self' = Constructed(roadLength)
            /\ blockedLane' = Null
            /\ blockedLocation' = Null]_vars

=============================================================================
